---- MODULE Spec2Model ----
(***************************************************************************)
(* Model of the vLLM concurrent-session benchmark                          *)
(* (src/kubernetes_vllm_concurrent_benchmark.py and                         *)
(* src/kind-setup/kind_benchmark.py, which share the same logic):           *)
(*   send_completion_request  one timed HTTP completion request             *)
(*   run_concurrent_benchmark the fan-out of c*r requests and the gather    *)
(*   analyze_results          the reduction of a batch to a statistics dict *)
(*   main                     the sweep over the concurrency levels         *)
(* Floating-point values (latencies, rates, percentiles) are exact          *)
(* rationals [num, den]; clock readings are integers.  The prompt and       *)
(* response excerpts and total_tokens, which nothing downstream reads, are  *)
(* left out of the outcome records.                                         *)
(***************************************************************************)
EXTENDS Integers, Sequences, FiniteSets, TLC

VARIABLES
    concurrency_levels,    \* main: the list the sweep iterates
    requests_per_session,  \* main: requests each session sends
    pc,                    \* main's position: "loop", "gather", "sleep", "done", "crashed"
    level_idx,             \* main: 1-based index of the for-loop over concurrency_levels
    tasks,                 \* run_concurrent_benchmark: the coroutines handed to gather
    replies,               \* HTTP boundary: what each request of the batch got back
    results,               \* gather's result list / main's `results`
    total_time,            \* main's `total_time` of the last batch
    stats,                 \* main's `stats` of the last batch
    all_stats,             \* main's `all_stats`
    dispatch_log,          \* history: <<level index, request_id>> of every request created
    level_log,             \* history: per finished level, how many of its requests succeeded
    report,                \* what main printed at the end
    session,               \* run_concurrent_benchmark: <<k>> while the ClientSession of
                           \* level k's batch is open, <<>> when none is
    cooldowns              \* history: how many `await asyncio.sleep(2)` have completed

vars == <<concurrency_levels, requests_per_session, pc, level_idx, tasks, replies,
          results, total_time, stats, all_stats, dispatch_log, level_log, report,
          session, cooldowns>>

----------------------------------------------------------------------------
(* Bounds of the model *)

MaxLevels == 2       \* longest concurrency_levels list
MaxBatch == 4        \* largest batch (num_concurrent * num_requests_per_session)
MaxTokens == 1       \* largest completion_tokens a response reports
MaxLatency == 1      \* largest difference of two time.time() readings
ClockStepBack == 1   \* largest backwards step of the wall clock between two readings
MaxAnalyzed == 3     \* longest result list handed to analyze_results on its own
MaxFairBatch == 3    \* largest batch of the sweeps checked for progress

(* Program constants *)

NumPrompts == 10     \* len(TEST_PROMPTS)

None == [none |-> TRUE]            \* Python's None (analyze_results with no success)
Pending == [pending |-> TRUE]      \* a coroutine gather has not finished yet
NoReply == [kind |-> "none yet"]   \* nothing has come back for the request yet
NoError == "no error key"          \* a success outcome has no "error" key

----------------------------------------------------------------------------
(* Exact rationals for the floats of the program *)

Abs(x) == IF x < 0 THEN 0 - x ELSE x

RECURSIVE GCD(_, _)
GCD(a, b) == IF b = 0 THEN a ELSE GCD(b, a % b)

\* n / d in lowest terms with a positive denominator (a function, so that
\* its arguments are evaluated once)
RatNorm[n \in Int, d \in Int] ==
    LET s == IF d < 0 THEN 0 - 1 ELSE 1
        g == GCD(Abs(n), Abs(d))
    IN  [num |-> (s * n) \div g, den |-> (s * d) \div g]

Rat(n, d) == RatNorm[n, d]

RatInt(n) == [num |-> n, den |-> 1]
Rats == [num : Int, den : Int]

RatPlus[x \in Rats, y \in Rats] == RatNorm[x.num * y.den + y.num * x.den, x.den * y.den]

RatAdd(x, y) == RatPlus[x, y]
RatDivInt(x, k) == Rat(x.num, x.den * k)

----------------------------------------------------------------------------
(* The HTTP boundary: what session.post / response.json() can deliver *)

\* differences of two time.time() readings (the wall clock may step back)
ClockDeltas == (0 - ClockStepBack)..MaxLatency

\* The body of a response.  json = FALSE: response.json() cannot parse it.
\* usage: <<>> when the object has no "usage", <<n>> when its
\* completion_tokens is n.  choices: no "choices" key, an empty list, or a
\* list whose first element carries a text.
Bodies == [json : BOOLEAN, usage : {<<>>} \cup {<<n>> : n \in 0..MaxTokens},
           choices : {"absent", "empty", "text"}]

NotJson == [json |-> FALSE, usage |-> <<>>, choices |-> "absent"]

JsonBodies == {b \in Bodies : b.json}

\* Everything one request can get back: a response (any status, any body),
\* or a transport error from session.post.  (The client timeout is the
\* program's own: see Timeout.)
Replies ==
    [kind : {"response"}, status : {200, 500}, body : JsonBodies \cup {NotJson}]
    \cup {[kind |-> "ClientError"]}

OkReply(n) == [kind |-> "response", status |-> 200,
               body |-> [json |-> TRUE, usage |-> <<n>>, choices |-> "text"]]

TimeoutReply == [kind |-> "TimeoutError"]

----------------------------------------------------------------------------
(* send_completion_request *)

\* `except Exception as e`: every exception the try body can raise is an
\* Exception (asyncio.TimeoutError, aiohttp.ClientError, ContentTypeError,
\* AttributeError, IndexError, ZeroDivisionError)
except_OnlyClientError(exc) == exc = "ClientError"

except_Exception(exc) ==
    exc \in {"ClientError", "TimeoutError", "ContentTypeError", "IndexError",
             "ZeroDivisionError"}

\* the condition of `completion_tokens / latency if latency > 0 else 0`
latency_nonnegative(latency) == latency >= 0

latency_positive(latency) == latency > 0

\* the conditional expression of line 67; a division by zero raises
tokens_per_second_of(completion_tokens, latency) ==
    IF latency_positive(latency)
    THEN IF latency = 0
         THEN [raised |-> TRUE, exc |-> "ZeroDivisionError"]
         ELSE [raised |-> FALSE, value |-> Rat(completion_tokens, latency)]
    ELSE [raised |-> FALSE, value |-> RatInt(0)]

\* the body of the try block: the exception it raises, or the dict it returns
try_body(request_id, reply, latency) ==
    IF reply.kind # "response"
    THEN [raised |-> TRUE, exc |-> reply.kind]               \* session.post raised
    ELSE IF ~reply.body.json
    THEN [raised |-> TRUE, exc |-> "ContentTypeError"]       \* response.json() raised
    ELSE
    LET usage == reply.body.usage
        completion_tokens == IF usage = <<>> THEN 0 ELSE usage[1]
        tps == tokens_per_second_of(completion_tokens, latency)
    IN  IF tps.raised THEN tps
        ELSE IF reply.body.choices = "empty"
        THEN [raised |-> TRUE, exc |-> "IndexError"]         \* result.get("choices", [{}])[0]
        ELSE [raised |-> FALSE,
              value |-> [request_id |-> request_id,
                         latency |-> latency,
                         completion_tokens |-> completion_tokens,
                         tokens_per_second |-> tps.value,
                         success |-> TRUE,
                         error |-> NoError]]

\* the whole coroutine; latency is end_time - start_time.  The result is the
\* returned dict, or the exception that leaves the coroutine.
send_completion_request(request_id, reply, latency) ==
    LET t == try_body(request_id, reply, latency)
    IN  IF ~t.raised THEN t
        ELSE IF except_Exception(t.exc)
        THEN [raised |-> FALSE,
              value |-> [request_id |-> request_id,
                         latency |-> latency,
                         completion_tokens |-> 0,
                         tokens_per_second |-> RatInt(0),
                         success |-> FALSE,
                         error |-> t.exc]]
        ELSE t

----------------------------------------------------------------------------
(* analyze_results *)

is_success(r) == r.success

is_failure(r) == ~r.success

\* successful = [r for r in results if r["success"]]
successful_of_unfiltered(rs) == rs

successful_of(rs) == SelectSeq(rs, is_success)

\* `if not successful: return None`
not_successful_or_single(successful) == Len(successful) <= 1

not_successful(successful) == successful = <<>>

\* failed = [r for r in results if not r["success"]]
failed_of_unfiltered(rs) == rs

failed_of(rs) == SelectSeq(rs, is_failure)

\* sum(...) over a list of integers
RECURSIVE SumInt(_)
SumInt(seq) == IF seq = <<>> THEN 0 ELSE Head(seq) + SumInt(Tail(seq))

\* sum(...) over a list of rationals
RECURSIVE SumRat(_)
SumRat(seq) == IF seq = <<>> THEN RatInt(0) ELSE RatAdd(Head(seq), SumRat(Tail(seq)))

IntLeq(a, b) == a <= b

\* np.mean
np_mean_one_more(xs) == Rat(SumInt(xs), Len(xs) + 1)

np_mean(xs) == Rat(SumInt(xs), Len(xs))

np_mean_rat(xs) == RatDivInt(SumRat(xs), Len(xs))

\* np.median: the middle of the sorted list, the mean of the two middles
\* when the length is even
np_median(xs) ==
    LET a == SortSeq(xs, IntLeq)
        n == Len(a)
    IN  IF n % 2 = 1 THEN RatInt(a[(n + 1) \div 2])
        ELSE Rat(a[n \div 2] + a[n \div 2 + 1], 2)

\* np.percentile(xs, q), numpy's default linear interpolation: the virtual
\* index (n - 1) * q / 100 into the sorted list
np_percentile(xs, q) ==
    LET a == SortSeq(xs, IntLeq)
        n == Len(a)
        pos == (n - 1) * q
        lo == pos \div 100
        rem == pos % 100
        hi == IF lo + 1 > n - 1 THEN n - 1 ELSE lo + 1
    IN  Rat(100 * a[lo + 1] + rem * (a[hi + 1] - a[lo + 1]), 100)

np_min(xs) == CHOOSE x \in {xs[i] : i \in DOMAIN xs} : \A j \in DOMAIN xs : x <= xs[j]

np_max(xs) == CHOOSE x \in {xs[i] : i \in DOMAIN xs} : \A j \in DOMAIN xs : x >= xs[j]

analyze_results(rs, tt, num_concurrent) ==
    LET successful == successful_of(rs)
        failed == failed_of(rs)
    IN  IF not_successful(successful) THEN None
        ELSE
        LET latencies == [i \in DOMAIN successful |-> successful[i].latency]
            tokens_per_second == [i \in DOMAIN successful |-> successful[i].tokens_per_second]
            completion_tokens == [i \in DOMAIN successful |-> successful[i].completion_tokens]
        IN  [num_concurrent |-> num_concurrent,
             total_requests |-> Len(rs),
             successful_requests |-> Len(successful),
             failed_requests |-> Len(failed),
             total_time |-> tt,
             avg_latency |-> np_mean(latencies),
             median_latency |-> np_median(latencies),
             p95_latency |-> np_percentile(latencies, 95),
             p99_latency |-> np_percentile(latencies, 99),
             min_latency |-> np_min(latencies),
             max_latency |-> np_max(latencies),
             avg_tokens_per_second |-> np_mean_rat(tokens_per_second),
             total_tokens_generated |-> SumInt(completion_tokens),
             overall_throughput |-> IF tt > 0 THEN Rat(SumInt(completion_tokens), tt)
                                    ELSE RatInt(0)]

----------------------------------------------------------------------------
(* run_concurrent_benchmark: the two nested loops that create the coroutines *)

\* one pass of the body of the inner loop: a coroutine for request_id
new_task_default_id(request_id) == [request_id |-> 0, prompt |-> request_id % NumPrompts]

new_task(request_id) == [request_id |-> request_id, prompt |-> request_id % NumPrompts]

\* `request_id += 1`
next_request_id_same(request_id) == request_id

next_request_id(request_id) == request_id + 1

\* for req_num in range(num_requests_per_session), from req_num on
RECURSIVE inner_loop(_, _, _)
inner_loop(req_num, num_requests_per_session, acc) ==
    IF req_num >= num_requests_per_session THEN acc
    ELSE inner_loop(req_num + 1, num_requests_per_session,
                    [tasks |-> Append(acc.tasks, new_task(acc.request_id)),
                     request_id |-> next_request_id(acc.request_id)])

\* for session_num in range(num_concurrent), from session_num on
RECURSIVE outer_loop(_, _, _, _)
outer_loop(session_num, num_concurrent, num_requests_per_session, acc) ==
    IF session_num >= num_concurrent THEN acc
    ELSE outer_loop(session_num + 1, num_concurrent, num_requests_per_session,
                    inner_loop(0, num_requests_per_session, acc))

\* the task list of one batch: tasks = [], request_id = 0, then the loops
build_tasks(num_concurrent, num_requests_per_session) ==
    outer_loop(0, num_concurrent, num_requests_per_session,
               [tasks |-> <<>>, request_id |-> 0]).tasks

----------------------------------------------------------------------------
(* The state machine: main's sweep and the batch in flight *)

\* the configurations of at most n levels whose batches hold at most b
\* requests: a list of levels and a requests_per_session
ConfigsWithin(n, b) ==
    {cfg \in [levels : UNION {[1..m -> 0..b] : m \in 0..n},
              requests_per_session : 0..b] :
        \A k \in DOMAIN cfg.levels : cfg.levels[k] * cfg.requests_per_session <= b}

Configs == ConfigsWithin(MaxLevels, MaxBatch)

\* main at `all_stats = []`, before the first level (the reachability check
\* on /models has passed)
InitWith(cfg) ==
    /\ concurrency_levels = cfg.levels
    /\ requests_per_session = cfg.requests_per_session
    /\ pc = "loop"
    /\ level_idx = 1
    /\ tasks = <<>>
    /\ replies = <<>>
    /\ results = <<>>
    /\ total_time = 0
    /\ stats = None
    /\ all_stats = <<>>
    /\ dispatch_log = <<>>
    /\ level_log = <<>>
    /\ report = "nothing yet"
    /\ session = <<>>
    /\ cooldowns = 0

Init == \E cfg \in Configs : InitWith(cfg)

num_concurrent == concurrency_levels[level_idx]

\* timeout=aiohttp.ClientTimeout(total=120) on session.post (kind_benchmark.py);
\* kubernetes_vllm_concurrent_benchmark.py passes none and gets the default of
\* aiohttp.ClientSession, a total of 300 seconds: bounded in both scripts.
\* total is <<seconds>>, or <<>> for no timeout.
ClientTimeoutNone == [total |-> <<>>]

ClientTimeout == [total |-> <<120>>]

\* `if stats:`: None is false, a non-empty dict is true
truthy_always(st) == TRUE

truthy(st) == st # None

\* main enters the loop body for the next level and run_concurrent_benchmark
\* opens its ClientSession, creates the batch's coroutines on it and hands
\* them to asyncio.gather
RunConcurrentBenchmark ==
    /\ pc = "loop"
    /\ level_idx <= Len(concurrency_levels)
    /\ session' = <<level_idx>>
    /\ LET ts == build_tasks(num_concurrent, requests_per_session)
       IN  /\ tasks' = ts
           /\ replies' = [i \in DOMAIN ts |-> NoReply]
           /\ results' = [i \in DOMAIN ts |-> Pending]
           /\ dispatch_log' = dispatch_log \o
                  [i \in DOMAIN ts |-> <<level_idx, ts[i].request_id>>]
    /\ pc' = "gather"
    /\ UNCHANGED <<concurrency_levels, requests_per_session, level_idx, total_time,
                   stats, all_stats, level_log, report, cooldowns>>

\* request i of the batch gets `reply` after `latency` and its coroutine ends:
\* with a dict, which gather keeps at position i, or with an exception, which
\* gather (return_exceptions is not set) raises into main, which has no handler
\* (the `async with` block closes the session on the way out)
Respond(i, reply, latency) ==
    /\ pc = "gather"
    /\ i \in DOMAIN results
    /\ results[i] = Pending
    /\ replies' = [replies EXCEPT ![i] = reply]
    /\ LET out == send_completion_request(tasks[i].request_id, reply, latency)
       IN  IF out.raised
           THEN /\ pc' = "crashed"
                /\ session' = <<>>
                /\ UNCHANGED results
           ELSE /\ results' = [results EXCEPT ![i] = out.value]
                /\ UNCHANGED <<pc, session>>
    /\ UNCHANGED <<concurrency_levels, requests_per_session, level_idx, tasks,
                   total_time, stats, all_stats, dispatch_log, level_log, report,
                   cooldowns>>

\* the client timeout of request i expires: session.post raises
\* asyncio.TimeoutError inside the coroutine
Timeout(i, latency) ==
    /\ ClientTimeout.total # <<>>
    /\ Respond(i, TimeoutReply, latency)

\* every coroutine has ended: gather returns the list, run_concurrent_benchmark
\* returns (results, total_time), which closes its ClientSession, and main
\* analyzes, appends and goes to sleep
GatherReturn(tt) ==
    /\ pc = "gather"
    /\ \A i \in DOMAIN results : results[i] # Pending
    /\ total_time' = tt
    /\ LET st == analyze_results(results, tt, num_concurrent)
       IN  /\ stats' = st
           /\ all_stats' = IF truthy(st) THEN Append(all_stats, st) ELSE all_stats
    /\ level_log' = Append(level_log,
                            Cardinality({i \in DOMAIN results : results[i].success}))
    /\ session' = <<>>
    /\ pc' = "sleep"
    /\ UNCHANGED <<concurrency_levels, requests_per_session, level_idx, tasks,
                   replies, results, dispatch_log, report, cooldowns>>

\* main is suspended in `await asyncio.sleep(2)`, the last statement of the
\* loop body: it got there by awaiting the batch and analyzing its results
batch_not_awaited == pc \in {"sleep", "gather"}

batch_awaited == pc = "sleep"

\* `await asyncio.sleep(2)` ends and the for loop takes the next level; the
\* sleep is unconditional, after the last level as after any other
Cooldown ==
    /\ batch_awaited
    /\ level_idx' = level_idx + 1
    /\ cooldowns' = cooldowns + 1
    /\ pc' = "loop"
    /\ UNCHANGED <<concurrency_levels, requests_per_session, tasks, replies, results,
                   total_time, stats, all_stats, dispatch_log, level_log, report,
                   session>>

\* the loop is over: `if all_stats:` saves and prints the summary, else
\* reports that no benchmark succeeded (kind_benchmark.py has no else branch
\* and prints nothing then)
Report ==
    /\ pc = "loop"
    /\ level_idx > Len(concurrency_levels)
    /\ report' = IF all_stats # <<>> THEN "Results saved"
                 ELSE "No successful benchmarks completed"
    /\ pc' = "done"
    /\ UNCHANGED <<concurrency_levels, requests_per_session, level_idx, tasks, replies,
                   results, total_time, stats, all_stats, dispatch_log, level_log,
                   session, cooldowns>>

\* what the server sends in the sweep: a completion or a broken connection
SweepReplies == {OkReply(MaxTokens), [kind |-> "ClientError"]}

SweepDeltas == {MaxLatency}

Next ==
    \/ RunConcurrentBenchmark
    \/ \E i \in DOMAIN tasks, reply \in SweepReplies, d \in SweepDeltas : Respond(i, reply, d)
    \/ \E i \in DOMAIN tasks, d \in SweepDeltas : Timeout(i, d)
    \/ \E tt \in SweepDeltas : GatherReturn(tt)
    \/ Cooldown
    \/ Report

Spec == Init /\ [][Next]_vars

\* a step of the program itself, as opposed to the server's
ProgramStep ==
    \/ RunConcurrentBenchmark
    \/ \E i \in DOMAIN tasks, d \in SweepDeltas : Timeout(i, d)
    \/ \E tt \in SweepDeltas : GatherReturn(tt)
    \/ Cooldown
    \/ Report

\* The event loop runs every ready callback: a timer that is due fires, a
\* gather whose coroutines have all ended returns, a sleep ends, and main
\* continues.  The server alone may stay silent for ever.
Fairness == WF_vars(ProgramStep)

FairInit == \E cfg \in ConfigsWithin(MaxLevels, MaxFairBatch) : InitWith(cfg)

FairSpec == FairInit /\ [][Next]_vars /\ Fairness

----------------------------------------------------------------------------
(* One batch against every reply the HTTP boundary can deliver *)

\* the state in which run_concurrent_benchmark(c, r) awaits gather, the first
\* level of a sweep over <<c>>
Dispatched(c, r) ==
    /\ concurrency_levels = <<c>>
    /\ requests_per_session = r
    /\ pc = "gather"
    /\ level_idx = 1
    /\ tasks = build_tasks(c, r)
    /\ total_time = 0
    /\ stats = None
    /\ all_stats = <<>>
    /\ dispatch_log = [i \in DOMAIN build_tasks(c, r) |-> <<1, build_tasks(c, r)[i].request_id>>]
    /\ level_log = <<>>
    /\ report = "nothing yet"
    /\ session = <<1>>
    /\ cooldowns = 0

InitRequest ==
    \E c \in 1..2 :
        /\ Dispatched(c, 1)
        /\ replies = [i \in 1..c |-> NoReply]
        /\ results = [i \in 1..c |-> Pending]

NextRequest ==
    \/ \E i \in DOMAIN tasks, reply \in Replies, d \in ClockDeltas : Respond(i, reply, d)
    \/ \E i \in DOMAIN tasks, d \in ClockDeltas : Timeout(i, d)
    \/ \E tt \in ClockDeltas : GatherReturn(tt)

SpecRequest == InitRequest /\ [][NextRequest]_vars

----------------------------------------------------------------------------
(* analyze_results on every small batch gather can return *)

AnalyzeReplies == {OkReply(n) : n \in 0..MaxTokens} \cup {[kind |-> "ClientError"]}

\* every coroutine of a batch of c requests has ended
InitAnalyze ==
    \E c \in 0..MaxAnalyzed :
        \E rv \in [1..c -> AnalyzeReplies], lv \in [1..c -> ClockDeltas] :
            /\ Dispatched(c, 1)
            /\ replies = rv
            /\ results = [i \in 1..c |->
                            send_completion_request(build_tasks(c, 1)[i].request_id,
                                                    rv[i], lv[i]).value]

NextAnalyze == \E tt \in ClockDeltas : GatherReturn(tt)

SpecAnalyze == InitAnalyze /\ [][NextAnalyze]_vars

----------------------------------------------------------------------------
(* Properties *)

Done(i) == i \in DOMAIN results /\ results[i] # Pending

IdsOf(seq) == {seq[i].request_id : i \in DOMAIN seq}

\* C1: a batch of c >= 1 sessions with r >= 1 requests each creates exactly
\* c*r requests, and gather returns exactly c*r outcomes whose request_id
\* values are 0 .. c*r-1, each exactly once, whatever mix of them failed.
C1_BatchIdsComplete ==
    (pc \in {"gather", "sleep"} /\ num_concurrent >= 1 /\ requests_per_session >= 1) =>
        LET k == num_concurrent * requests_per_session
        IN  /\ Len(tasks) = k
            /\ IdsOf(tasks) = 0..(k - 1)
            /\ pc = "sleep" =>
                /\ Len(results) = k
                /\ IdsOf(results) = 0..(k - 1)
                /\ \A i, j \in DOMAIN results :
                       i # j => results[i].request_id # results[j].request_id

\* 2 sessions of 2 requests, some succeeding and some failing
C1_Witness ==
    /\ pc = "sleep"
    /\ num_concurrent = 2
    /\ requests_per_session = 2
    /\ \E i, j \in DOMAIN results : results[i].success /\ ~results[j].success

\* what the claim calls a transport, timeout or parse failure of a request
FailureReply(reply) ==
    \/ reply.kind \in {"ClientError", "TimeoutError"}
    \/ reply.kind = "response" /\ (~reply.body.json \/ reply.body.choices = "empty")

\* C2: a transport, timeout or parse failure of a request is recorded as a
\* failed outcome with an error message for that request only and never
\* reaches the batch or the sweep: main never crashes, every request that
\* got a usable response keeps its successful outcome whatever happened to
\* the others, and the batch returns with an outcome for every request.
C2_FailureIsolated ==
    /\ pc # "crashed"
    /\ \A i \in DOMAIN results :
           results[i] # Pending =>
               /\ results[i].request_id = tasks[i].request_id
               /\ FailureReply(replies[i]) =>
                      ~results[i].success /\ results[i].error # NoError
               /\ ~FailureReply(replies[i]) => results[i].success
    /\ pc = "sleep" => \A i \in DOMAIN tasks : Done(i)

C2_Witness ==
    /\ pc = "sleep"
    /\ Len(results) = 2
    /\ replies[1].kind = "TimeoutError"
    /\ ~results[1].success
    /\ results[2].success

\* C3: a response whose status is not a success status yields a failed
\* outcome (success false, zero tokens, an error message), even when its
\* body parses.
C3_NonSuccessStatusFails ==
    \A i \in DOMAIN results :
        (results[i] # Pending /\ replies[i].kind = "response" /\ replies[i].status # 200) =>
            /\ ~results[i].success
            /\ results[i].completion_tokens = 0
            /\ results[i].error # NoError

\* the levels, in order, whose batch had at least one success
RECURSIVE LevelsWithSuccess(_, _)
LevelsWithSuccess(levels, log) ==
    IF levels = <<>> \/ log = <<>> THEN <<>>
    ELSE (IF Head(log) > 0 THEN <<Head(levels)>> ELSE <<>>)
         \o LevelsWithSuccess(Tail(levels), Tail(log))

\* C4: the sweep runs every level to completion, and when main is done
\* all_stats holds exactly one record for each level that had at least one
\* successful outcome and none for a level whose requests all failed, in the
\* order of the levels.
C4_OneRecordPerSuccessfulLevel ==
    /\ pc # "crashed"
    /\ pc = "done" =>
        /\ Len(level_log) = Len(concurrency_levels)
        /\ Len(all_stats) = Len(LevelsWithSuccess(concurrency_levels, level_log))
        /\ \A k \in DOMAIN all_stats : all_stats[k] # None
        /\ [k \in DOMAIN all_stats |-> all_stats[k].num_concurrent]
               = LevelsWithSuccess(concurrency_levels, level_log)

\* levels [1, 2], the first fully failed, the second fully succeeded: one
\* record, for level 2
C4_Witness ==
    /\ pc = "done"
    /\ concurrency_levels = <<1, 2>>
    /\ level_log = <<0, 2>>
    /\ Len(all_stats) = 1
    /\ all_stats[1].num_concurrent = 2

SuccessCount == Cardinality({i \in DOMAIN results : results[i].success})

FailureCount == Cardinality({i \in DOMAIN results : ~results[i].success})

\* C5: analyze_results returns None, and no statistics record, exactly when
\* the batch holds no successful outcome.
C5_NoneIffNoSuccess ==
    pc = "sleep" => (stats = None <=> SuccessCount = 0)

C5_Witness ==
    /\ pc = "sleep"
    /\ Len(results) >= 2
    /\ SuccessCount = 0
    /\ stats = None

\* C6: every statistics record has total_requests = successful_requests +
\* failed_requests with total_requests the number of outcomes of the batch,
\* each outcome counted in exactly one of the two.
C6_CountsPartition ==
    (pc = "sleep" /\ stats # None) =>
        /\ stats.total_requests = Len(results)
        /\ stats.successful_requests = SuccessCount
        /\ stats.failed_requests = FailureCount
        /\ stats.total_requests = stats.successful_requests + stats.failed_requests

C6_Witness ==
    /\ pc = "sleep"
    /\ stats # None
    /\ SuccessCount = 2
    /\ FailureCount = 1

\* C7: every outcome of send_completion_request has tokens_per_second >= 0,
\* and 0 whenever its latency is <= 0 or it failed; completion_tokens /
\* latency is never evaluated with latency = 0.
C7_RateNonNegative ==
    \A i \in DOMAIN results :
        results[i] # Pending =>
            /\ results[i].tokens_per_second.num >= 0
            /\ (results[i].latency <= 0 \/ ~results[i].success) =>
                   results[i].tokens_per_second = RatInt(0)
            /\ (results[i].success /\ results[i].latency > 0) =>
                   results[i].tokens_per_second
                       = Rat(results[i].completion_tokens, results[i].latency)
            /\ results[i].error # "ZeroDivisionError"

C7_Witness ==
    \E i \in DOMAIN results :
        /\ results[i] # Pending
        /\ results[i].success
        /\ results[i].latency = 0
        /\ results[i].completion_tokens > 0
        /\ results[i].tokens_per_second = RatInt(0)

\* an empty list of levels, a level of 0 sessions, or 0 requests per session
Malformed ==
    \/ concurrency_levels = <<>>
    \/ requests_per_session = 0
    \/ \E k \in DOMAIN concurrency_levels : concurrency_levels[k] = 0

\* C8: a malformed configuration is rejected before any work is done: the
\* sweep never runs to its end on one, having dispatched nothing for it.
C8_MalformedRejected == ~(Malformed /\ pc \in {"sleep", "done"})

\* C9 as stated: request_id is unique within the whole sweep, assigned in
\* increasing order of submission across all the batches.
C9_UniqueInSweep ==
    \A a, b \in DOMAIN dispatch_log :
        a < b => dispatch_log[a][2] < dispatch_log[b][2]

\* C9, amended: request_id is unique within one batch, assigned in
\* increasing order of submission starting from 0 in every batch.
C9_UniqueInBatch ==
    /\ \A a, b \in DOMAIN dispatch_log :
           (a < b /\ dispatch_log[a][1] = dispatch_log[b][1]) =>
               dispatch_log[a][2] < dispatch_log[b][2]
    /\ \A a \in DOMAIN dispatch_log :
           (a = 1 \/ dispatch_log[a - 1][1] # dispatch_log[a][1]) => dispatch_log[a][2] = 0

C9_Witness ==
    \E a, b, c \in DOMAIN dispatch_log :
        /\ dispatch_log[a][1] = 1 /\ dispatch_log[b][1] = 1
        /\ dispatch_log[c][1] = 2
        /\ dispatch_log[a][2] = dispatch_log[c][2]
        /\ dispatch_log[a][2] < dispatch_log[b][2]

\* C10: every dispatched request eventually yields its one outcome and every
\* batch eventually returns, even when the server never answers: the client
\* timeout ends the stalled request, which is recorded as a failed outcome,
\* and cancels neither the other requests of the batch, whose outcomes stay
\* as they are, nor the sweep, which runs to its end.
C10_EveryRequestEnds ==
    /\ (pc = "gather") ~> (pc = "sleep" /\ \A i \in DOMAIN tasks : Done(i))
    /\ <>(pc = "done")
    /\ [](\A i \in DOMAIN results :
              (results[i] # Pending /\ replies[i] = TimeoutReply) =>
                  ~results[i].success /\ results[i].error = "TimeoutError")
    /\ [][\A j \in DOMAIN results :
              (pc = "gather" /\ results[j] # Pending /\ pc' \in {"gather", "sleep"}) =>
                  (j \in DOMAIN results' /\ results'[j] = results[j])]_vars

C10_Witness ==
    /\ pc = "done"
    /\ Len(concurrency_levels) = 2
    /\ Len(all_stats) = 2
    /\ \E i, j \in DOMAIN results :
           /\ replies[i] = TimeoutReply
           /\ ~results[i].success
           /\ results[j].success

\* the successful outcomes of the batch, and their latencies
Successes == {i \in DOMAIN results : results[i].success}

SuccessLatencies == {results[i].latency : i \in Successes}

RECURSIVE SumTokens(_)
SumTokens(S) ==
    IF S = {} THEN 0
    ELSE LET i == CHOOSE j \in S : TRUE
         IN  results[i].completion_tokens + SumTokens(S \ {i})

\* an analysis result with the two fields that count all and the failed
\* outcomes blanked
WithoutCounts(st) ==
    IF st = None THEN None
    ELSE [st EXCEPT !.total_requests = 0, !.failed_requests = 0]

\* two analysis results that differ in no field but those two counts
SameButCounts(a, b) == WithoutCounts(a) = WithoutCounts(b)

\* latencies a failed outcome can have and no outcome of the batch has: one
\* below and one above every reading (a request that timed out took longer
\* than any that succeeded)
OtherLatencies == {0 - ClockStepBack - 1, MaxLatency + 1}

\* a failed outcome as send_completion_request returns it
FailedOutcome(request_id, latency) ==
    [request_id |-> request_id, latency |-> latency, completion_tokens |-> 0,
     tokens_per_second |-> RatInt(0), success |-> FALSE, error |-> "ClientError"]

\* C11: the latency statistics are computed over the successful outcomes
\* only.  For a batch with at least one success, min_latency and max_latency
\* are the least and the greatest latency of a successful outcome,
\* total_tokens_generated is the sum of completion_tokens over the successful
\* outcomes, and giving a failed outcome another latency, removing the failed
\* outcomes or adding one changes no field of the record but total_requests
\* and failed_requests.
C11_OnlySuccessesCounted ==
    (pc = "sleep" /\ Successes # {}) =>
        /\ stats # None
        /\ stats.min_latency \in SuccessLatencies
        /\ \A l \in SuccessLatencies : stats.min_latency <= l
        /\ stats.max_latency \in SuccessLatencies
        /\ \A l \in SuccessLatencies : stats.max_latency >= l
        /\ stats.total_tokens_generated = SumTokens(Successes)
        /\ \A i \in DOMAIN results, d \in OtherLatencies :
               ~results[i].success =>
                   analyze_results([results EXCEPT ![i].latency = d],
                                   total_time, num_concurrent) = stats
        /\ SameButCounts(analyze_results(SelectSeq(results, is_success),
                                         total_time, num_concurrent), stats)
        /\ \A d \in OtherLatencies :
               SameButCounts(analyze_results(Append(results, FailedOutcome(Len(results), d)),
                                             total_time, num_concurrent), stats)

\* two successes with different latencies and tokens, and a failure whose
\* latency is below both
C11_Witness ==
    /\ pc = "sleep"
    /\ stats # None
    /\ \E i, j, k \in DOMAIN results :
           /\ results[i].success /\ results[j].success /\ ~results[k].success
           /\ results[i].latency < results[j].latency
           /\ results[k].latency < results[i].latency
           /\ results[i].completion_tokens > 0
    /\ stats.min_latency < stats.max_latency

\* C12: for a batch with exactly one successful outcome, and any number of
\* failed ones, analyze_results yields min_latency = max_latency =
\* median_latency = p95_latency = p99_latency = avg_latency = the latency of
\* that outcome.
C12_SingleSuccessLatency ==
    (pc = "sleep" /\ Cardinality(Successes) = 1) =>
        LET l == results[CHOOSE i \in Successes : TRUE].latency
        IN  /\ stats # None
            /\ stats.successful_requests = 1
            /\ stats.min_latency = l
            /\ stats.max_latency = l
            /\ stats.median_latency = RatInt(l)
            /\ stats.p95_latency = RatInt(l)
            /\ stats.p99_latency = RatInt(l)
            /\ stats.avg_latency = RatInt(l)

\* one success of latency MaxLatency between two failures of other latencies
C12_Witness ==
    /\ pc = "sleep"
    /\ Len(results) = 3
    /\ Successes = {2}
    /\ results[2].latency = MaxLatency
    /\ results[1].latency < results[2].latency
    /\ results[3].latency < results[1].latency
    /\ stats # None
    /\ stats.p99_latency = RatInt(MaxLatency)

\* C13: the sweep pauses after each level except the last: when a level
\* starts, exactly one cooldown has elapsed for each level before it, and
\* when the run is reported none has followed the final level, so a sweep
\* over n >= 1 levels of positive size has paused n - 1 times.
C13_CooldownExceptLast ==
    ~Malformed =>
        /\ pc = "gather" => cooldowns = level_idx - 1
        /\ pc = "done" => cooldowns = Len(concurrency_levels) - 1

\* the requests whose coroutine has not ended
InFlight == {i \in DOMAIN results : results[i] = Pending}

\* the level whose batch created request i of `tasks`
LevelOfTask(i) == dispatch_log[Len(dispatch_log) - Len(tasks) + i][1]

\* C14: the batches of different levels never overlap.  At any moment all
\* the requests in flight belong to the batch of one level, the one main is
\* awaiting, and run on the ClientSession that batch opened; and no request
\* of a level is created until every request of the level before it has its
\* outcome, that level's statistics have been computed, its session is
\* closed and its cooldown has elapsed.
C14_BatchesNeverOverlap ==
    /\ [](InFlight # {} =>
              /\ pc = "gather"
              /\ session = <<level_idx>>
              /\ \A i \in InFlight : LevelOfTask(i) = level_idx)
    /\ [][dispatch_log' # dispatch_log =>
              /\ InFlight = {}
              /\ session = <<>>
              /\ Len(level_log) = level_idx - 1
              /\ cooldowns = level_idx - 1
              /\ \A a \in (DOMAIN dispatch_log') \ (DOMAIN dispatch_log) :
                     dispatch_log'[a][1] = level_idx]_vars

\* the second level's batch in flight, after a first level that sent requests
C14_Witness ==
    /\ pc = "gather"
    /\ level_idx = 2
    /\ Cardinality(InFlight) = 2
    /\ \E a \in DOMAIN dispatch_log : dispatch_log[a][1] = 1
    /\ Len(level_log) = 1
    /\ cooldowns = 1
    /\ session = <<2>>

====
